---- MODULE Spec2Model ----
(***************************************************************************)
(* Model of square_skill_api/models/prediction.py: the pydantic models     *)
(* PredictionOutput, PredictionDocument, Prediction and QueryOutput, the   *)
(* ranking key and the sorting validator of QueryOutput, the context       *)
(* fan-out helper and the two adapter constructors.                        *)
(*                                                                         *)
(* Python values whose runtime type the code inspects carry that type in   *)
(* the field cls.  Scores are integers (the code only compares and copies  *)
(* them).  A call either returns a value (status "ok") or raises           *)
(* (status = the exception's name).                                        *)
(***************************************************************************)
EXTENDS Integers, Sequences, FiniteSets

VARIABLES op, arg, ret

vars == <<op, arg, ret>>

-----------------------------------------------------------------------------
(* Bounds of the explored inputs *)

MaxScore == 1
MaxPredictions == 2
MaxAnswers == 2
MaxPassages == 2
MaxRecords == 2

Scores == 0..MaxScore

-----------------------------------------------------------------------------
(* Python values *)

None == [cls |-> "NoneType"]
Str(s) == [cls |-> "str", val |-> s]
Float(x) == [cls |-> "float", val |-> x]
List(xs) == [cls |-> "list", val |-> xs]
PyInt(x) == [cls |-> "int", val |-> x]

Ok(v) == [status |-> "ok", value |-> v]
Raise(e) == [status |-> e]

Range(s) == {s[i] : i \in DOMAIN s}

\* keyword argument kw[name], or the field's default when it is not passed
FieldOr(kw, name, default) == IF name \in DOMAIN kw THEN kw[name] ELSE default

-----------------------------------------------------------------------------
(* The pydantic models *)

DefaultDocumentScore == 0
KeyDefaultDocumentScore == 1
NoAnswerFound == "No answer found."

PredictionOutput(kw) ==
    [cls |-> "PredictionOutput",
     output |-> kw.output,
     output_score |-> kw.output_score]

\* only declared fields are read from the keyword arguments: pydantic's
\* BaseModel ignores a keyword that names no field
PredictionDocument(kw) ==
    [cls |-> "PredictionDocument",
     index |-> FieldOr(kw, "index", ""),
     document_id |-> FieldOr(kw, "document_id", ""),
     document |-> kw.document,
     span |-> FieldOr(kw, "span", None),
     url |-> FieldOr(kw, "url", ""),
     source |-> FieldOr(kw, "source", ""),
     document_score |-> FieldOr(kw, "document_score", DefaultDocumentScore)]

\* validation of a field of model type: an instance is kept, a mapping is
\* turned into an instance field by field
ValidateOutput(x) ==
    IF x.cls = "PredictionOutput" THEN x ELSE PredictionOutput(x)

ValidateDocument(x) ==
    IF x.cls = "PredictionDocument" THEN x ELSE PredictionDocument(x)

Prediction(kw) ==
    [cls |-> "Prediction",
     prediction_score |-> kw.prediction_score,
     prediction_output |-> ValidateOutput(kw.prediction_output),
     prediction_documents |->
        LET ds == FieldOr(kw, "prediction_documents", <<>>)
        IN  [i \in 1..Len(ds) |-> ValidateDocument(ds[i])]]

ValidatePrediction(x) ==
    IF x.cls = "Prediction" THEN x ELSE Prediction(x)

\* BaseModel.dict(): the instance as a mapping, nested models included
RECURSIVE ToDict(_)
ToDict(m) ==
    IF m.cls = "PredictionOutput"
    THEN [cls |-> "dict", output |-> m.output, output_score |-> m.output_score]
    ELSE IF m.cls = "PredictionDocument"
    THEN [cls |-> "dict", index |-> m.index, document_id |-> m.document_id,
          document |-> m.document, span |-> m.span, url |-> m.url,
          source |-> m.source, document_score |-> m.document_score]
    ELSE IF m.cls = "Prediction"
    THEN [cls |-> "dict",
          prediction_score |-> m.prediction_score,
          prediction_output |-> ToDict(m.prediction_output),
          prediction_documents |->
             [i \in 1..Len(m.prediction_documents) |->
                 ToDict(m.prediction_documents[i])]]
    ELSE [cls |-> "dict",
          predictions |->
             [i \in 1..Len(m.predictions) |-> ToDict(m.predictions[i])]]

-----------------------------------------------------------------------------
(* Ranking *)

\* variant of sort_predictions_key whose mapping branch never looks at the
\* documents
sort_predictions_key_documents_unread(p) ==
    IF p.cls = "Prediction"
    THEN Ok(<<IF p.prediction_documents # <<>>
              THEN FieldOr(p.prediction_documents[1], "document_score",
                           KeyDefaultDocumentScore)
              ELSE KeyDefaultDocumentScore,
              p.prediction_score>>)
    ELSE IF p.cls = "dict"
    THEN Ok(<<KeyDefaultDocumentScore, p.prediction_score>>)
    ELSE Raise("TypeError")

sort_predictions_key(p) ==
    IF p.cls = "Prediction"
    THEN Ok(<<IF p.prediction_documents # <<>>
              THEN FieldOr(p.prediction_documents[1], "document_score",
                           KeyDefaultDocumentScore)
              ELSE KeyDefaultDocumentScore,
              p.prediction_score>>)
    ELSE IF p.cls = "dict"
    THEN Ok(<<IF p.prediction_documents # <<>>
              THEN FieldOr(p.prediction_documents[1], "document_score",
                           KeyDefaultDocumentScore)
              ELSE KeyDefaultDocumentScore,
              p.prediction_score>>)
    ELSE Raise("TypeError")

\* Python's order on the key tuples
TupleLess(a, b) == a[1] < b[1] \/ (a[1] = b[1] /\ a[2] < b[2])

\* variant of InsertDescending without reverse=True: ascending order
InsertAscending(x, s) ==
    LET kx == sort_predictions_key(x).value
        later == {i \in 1..Len(s) : TupleLess(kx, sort_predictions_key(s[i]).value)}
        k == IF later = {} THEN Len(s) + 1
             ELSE CHOOSE i \in later : \A j \in later : i <= j
    IN  SubSeq(s, 1, k - 1) \o <<x>> \o SubSeq(s, k, Len(s))

\* variant of InsertDescending that is not stable: an element goes before the
\* elements of equal key (a descending order got by reversing an ascending sort)
InsertBeforeEqual(x, s) ==
    LET kx == sort_predictions_key(x).value
        later == {i \in 1..Len(s) : ~ TupleLess(kx, sort_predictions_key(s[i]).value)}
        k == IF later = {} THEN Len(s) + 1
             ELSE CHOOSE i \in later : \A j \in later : i <= j
    IN  SubSeq(s, 1, k - 1) \o <<x>> \o SubSeq(s, k, Len(s))

\* sorted(v, key=..., reverse=True): descending, and stable (elements with
\* equal keys keep their order in v)
InsertDescending(x, s) ==
    LET kx == sort_predictions_key(x).value
        later == {i \in 1..Len(s) : TupleLess(sort_predictions_key(s[i]).value, kx)}
        k == IF later = {} THEN Len(s) + 1
             ELSE CHOOSE i \in later : \A j \in later : i <= j
    IN  SubSeq(s, 1, k - 1) \o <<x>> \o SubSeq(s, k, Len(s))

RECURSIVE sort_predictions(_)
sort_predictions(v) ==
    IF v = <<>> THEN <<>>
    ELSE InsertDescending(v[Len(v)], sort_predictions(SubSeq(v, 1, Len(v) - 1)))

\* QueryOutput(predictions=v): the items are validated, then the validator
\* of the field sorts them
QueryOutput(v) ==
    [cls |-> "QueryOutput",
     predictions |-> sort_predictions([i \in 1..Len(v) |-> ValidatePrediction(v[i])])]

-----------------------------------------------------------------------------
(* Context fan-out helper *)

\* variant of the fan-out that wraps a shared text once, not once per answer
prediction_documents_iter_shared_once(iter_len, context) ==
    IF context.cls = "NoneType"
    THEN Ok([i \in 1..iter_len |-> <<>>])
    ELSE IF context.cls = "str"
    THEN Ok(<<<<PredictionDocument([document |-> context.val])>>>>)
    ELSE IF context.cls = "list"
    THEN IF Len(context.val) # iter_len
         THEN Raise("ValueError")
         ELSE Ok([i \in 1..Len(context.val) |->
                     <<PredictionDocument([document |-> context.val[i]])>>])
    ELSE Raise("TypeError")

\* variant of the fan-out that rejects only a context list that is too short
prediction_documents_iter_short_only(iter_len, context) ==
    IF context.cls = "NoneType"
    THEN Ok([i \in 1..iter_len |-> <<>>])
    ELSE IF context.cls = "str"
    THEN Ok([i \in 1..iter_len |->
                <<PredictionDocument([document |-> context.val])>>])
    ELSE IF context.cls = "list"
    THEN IF Len(context.val) < iter_len
         THEN Raise("ValueError")
         ELSE Ok([i \in 1..Len(context.val) |->
                     <<PredictionDocument([document |-> context.val[i]])>>])
    ELSE Raise("TypeError")

prediction_documents_iter_from_context(iter_len, context) ==
    IF context.cls = "NoneType"
    THEN Ok([i \in 1..iter_len |-> <<>>])
    ELSE IF context.cls = "str"
    THEN Ok([i \in 1..iter_len |->
                <<PredictionDocument([document |-> context.val])>>])
    ELSE IF context.cls = "list"
    THEN IF Len(context.val) # iter_len
         THEN Raise("ValueError")
         ELSE Ok([i \in 1..Len(context.val) |->
                     <<PredictionDocument([document |-> context.val[i]])>>])
    ELSE Raise("TypeError")

-----------------------------------------------------------------------------
(* Sequence-classification adapter *)

Min(a, b) == IF a <= b THEN a ELSE b

\* variant of from_sequence_classification that does not pass the documents on
from_sequence_classification_no_documents(answers, model_api_output, context) ==
    LET it == prediction_documents_iter_from_context(Len(answers), context)
    IN  IF it.status # "ok" THEN it
        ELSE IF "model_outputs" \notin DOMAIN model_api_output
        THEN Raise("KeyError")
        ELSE
          LET predictions_scores == model_api_output.model_outputs.logits[1]
              n == Min(Len(predictions_scores), Min(Len(answers), Len(it.value)))
              predictions ==
                [i \in 1..n |->
                    Prediction(
                      [prediction_score |-> predictions_scores[i],
                       prediction_output |->
                          PredictionOutput([output |-> answers[i],
                                            output_score |-> predictions_scores[i]])])]
          IN  Ok(QueryOutput(predictions))

from_sequence_classification(answers, model_api_output, context) ==
    LET it == prediction_documents_iter_from_context(Len(answers), context)
    IN  IF it.status # "ok" THEN it
        ELSE IF "model_outputs" \notin DOMAIN model_api_output
        THEN Raise("KeyError")
        ELSE
          LET predictions_scores == model_api_output.model_outputs.logits[1]
              \* zip stops at the shortest of its three arguments
              n == Min(Len(predictions_scores), Min(Len(answers), Len(it.value)))
              predictions ==
                [i \in 1..n |->
                    Prediction(
                      [prediction_score |-> predictions_scores[i],
                       prediction_output |->
                          PredictionOutput([output |-> answers[i],
                                            output_score |-> predictions_scores[i]]),
                       prediction_documents |-> it.value[i]])]
          IN  Ok(QueryOutput(predictions))

-----------------------------------------------------------------------------
(* Question-answering adapter *)

\* the context document and context score of passage i
ResolveContext(i, context, context_score) ==
    IF context.cls = "list"
    THEN IF context_score.cls # "list" THEN Raise("AssertionError")
         ELSE IF i > Len(context.val) \/ i > Len(context_score.val)
         THEN Raise("IndexError")
         ELSE Ok([doc |-> context.val[i], score |-> Float(context_score.val[i])])
    ELSE Ok([doc |-> IF context.cls = "NoneType" THEN "" ELSE context.val,
             score |-> IF context.cls = "NoneType" THEN Float(1) ELSE context_score])

\* variant of AnswerPrediction that keeps an empty answer text
AnswerPredictionNoPlaceholder(answer, context_doc_i, context_score_i) ==
    Prediction(
      [prediction_score |-> answer.score,
       prediction_output |->
          PredictionOutput([output |-> answer.answer, output_score |-> answer.score]),
       prediction_documents |->
          IF context_doc_i # ""
          THEN <<PredictionDocument(
                   [document |-> context_doc_i,
                    span |-> List(<<answer.start, answer.end>>),
                    score |-> context_score_i])>>
          ELSE <<>>])

\* variant of AnswerPrediction that attaches the document also for an empty
\* context text
AnswerPredictionAlwaysDocument(answer, context_doc_i, context_score_i) ==
    Prediction(
      [prediction_score |-> answer.score,
       prediction_output |->
          PredictionOutput(
            [output |-> IF answer.answer = "" THEN NoAnswerFound ELSE answer.answer,
             output_score |-> answer.score]),
       prediction_documents |->
          <<PredictionDocument(
              [document |-> context_doc_i,
               span |-> List(<<answer.start, answer.end>>),
               score |-> context_score_i])>>])

\* the Prediction of one candidate answer record
AnswerPrediction(answer, context_doc_i, context_score_i) ==
    LET answer_str == IF answer.answer = "" THEN NoAnswerFound ELSE answer.answer
        answer_score == answer.score
        prediction_documents ==
            IF context_doc_i # ""
            THEN <<PredictionDocument(
                     [document |-> context_doc_i,
                      span |-> List(<<answer.start, answer.end>>),
                      score |-> context_score_i])>>
            ELSE <<>>
    IN  Prediction(
          [prediction_score |-> answer_score,
           prediction_output |->
              PredictionOutput([output |-> answer_str, output_score |-> answer_score]),
           prediction_documents |-> prediction_documents])

RECURSIVE PredictionsFrom(_, _, _, _)
PredictionsFrom(i, passages, context, context_score) ==
    IF i > Len(passages) THEN <<>>
    ELSE LET r == ResolveContext(i, context, context_score).value
         IN  [j \in 1..Len(passages[i]) |->
                 AnswerPrediction(passages[i][j], r.doc, r.score)]
             \o PredictionsFrom(i + 1, passages, context, context_score)

from_question_answering(model_api_output, context, context_score) ==
    IF "answers" \notin DOMAIN model_api_output THEN Raise("KeyError")
    ELSE
      LET passages == model_api_output.answers
          failing == {i \in 1..Len(passages) :
                        ResolveContext(i, context, context_score).status # "ok"}
      IN  IF failing # {}
          THEN \* the first passage whose context cannot be resolved raises
               ResolveContext(CHOOSE i \in failing : \A j \in failing : i <= j,
                              context, context_score)
          ELSE Ok(QueryOutput(PredictionsFrom(1, passages, context, context_score)))

-----------------------------------------------------------------------------
(* Inputs *)

SeqsUpTo(S, n) == UNION {[1..k -> S] : k \in 0..n}

Doc(text, sc) == PredictionDocument([document |-> text, document_score |-> sc])

\* document lists of directly built Predictions: none, one, several; scores
\* below, at and above the key's default
DocumentLists ==
    {<<>>, <<Doc("d", 0)>>, <<Doc("d", 2)>>,
     <<Doc("d", 2), Doc("e", 0)>>, <<Doc("d", 0), Doc("e", 2)>>}

OutputTexts == {"a", "b"}

PredictionPool ==
    {Prediction([prediction_score |-> s,
                 prediction_output |->
                    PredictionOutput([output |-> o, output_score |-> MaxScore - s]),
                 prediction_documents |-> ds]) :
        s \in Scores, o \in OutputTexts, ds \in DocumentLists}

\* a mapping without the key k
DropKey(d, k) == [x \in DOMAIN d \ {k} |-> d[x]]

DropDocumentScores(d) ==
    [d EXCEPT !.prediction_documents =
        [i \in 1..Len(d.prediction_documents) |->
            DropKey(d.prediction_documents[i], "document_score")]]

\* what the ranking key may be applied to: Predictions, their mappings, the
\* same mappings with no document_score key, and values of other types
KeyInputs ==
    PredictionPool
    \cup {ToDict(p) : p \in PredictionPool}
    \cup {DropDocumentScores(ToDict(p)) : p \in PredictionPool}
    \cup {None, Str("a"), Float(1), List(<<>>),
          PredictionOutput([output |-> "a", output_score |-> 1])}

AnswerTexts == {"yes", "no"}
ContextTexts == {"a", "b"}

\* the context argument of the fan-out helper: absent, a text, a list of
\* texts, or a value of another type
FanOutContexts ==
    {None, Str(""), Str("doc"), PyInt(7)}
    \cup {List(c) : c \in SeqsUpTo(ContextTexts, MaxAnswers + 1)}

\* sequence-classification payloads: well formed, or without model_outputs
LogitsPayloads ==
    {[cls |-> "dict", model_outputs |-> [logits |-> <<sc>>]] :
        sc \in SeqsUpTo(Scores, MaxAnswers + 1)}
    \cup {[cls |-> "dict"]}

\* candidate answer records: an empty answer at [0, 0], an answer at [1, 4]
AnswerRecords ==
    {[answer |-> "", score |-> s, start |-> 0, end |-> 0] : s \in Scores}
    \cup {[answer |-> "yes", score |-> s, start |-> 1, end |-> 4] : s \in Scores}

RECURSIVE SumTo(_, _)
SumTo(f, n) == IF n = 0 THEN 0 ELSE f[n] + SumTo(f, n - 1)

\* the passages holding the records of flat, sizes[i] of them in passage i
Split(flat, sizes) ==
    [i \in 1..Len(sizes) |->
        SubSeq(flat, SumTo(sizes, i - 1) + 1, SumTo(sizes, i))]

\* question-answering payloads: at most MaxPassages passages holding at most
\* MaxRecords records in all, or a payload without answers
AnswersPayloads ==
    {[cls |-> "dict", answers |-> Split(flat, sizes)] :
        <<sizes, flat>> \in
           UNION {{<<sz, fl>> : fl \in [1..SumTo(sz, Len(sz)) -> AnswerRecords]} :
                     sz \in {z \in SeqsUpTo(0..MaxRecords, MaxPassages) :
                                SumTo(z, Len(z)) <= MaxRecords}}}
    \cup {[cls |-> "dict"]}

QAContextTexts == {"", "ctx"}

\* context of the question-answering adapter for a payload of n passages:
\* absent, a text, or a list of n or n - 1 texts
QAContexts(n) ==
    {None} \cup {Str(t) : t \in QAContextTexts}
    \cup {List(c) : c \in [1..n -> QAContextTexts]}
    \cup {List(c) : c \in IF n = 0 THEN {} ELSE [1..(n - 1) -> QAContextTexts]}

\* context_score: absent, a number, or the list 1, 2, ... of n or n - 1 numbers
QAContextScores(n) ==
    {None, Float(1), Float(2)}
    \cup {List([i \in 1..n |-> i])}
    \cup (IF n = 0 THEN {} ELSE {List([i \in 1..(n - 1) |-> i])})

-----------------------------------------------------------------------------
(* The calls *)

Init ==
    /\ op = "idle"
    /\ arg = None
    /\ ret = None

\* QueryOutput(predictions=v)
Construct ==
    /\ op = "idle"
    /\ \E v \in SeqsUpTo(PredictionPool, MaxPredictions) :
          /\ op' = "QueryOutput"
          /\ arg' = [predictions |-> v]
          /\ ret' = Ok(QueryOutput(v))

SortKey ==
    /\ op = "idle"
    /\ \E p \in KeyInputs :
          /\ op' = "sort_predictions_key"
          /\ arg' = [p |-> p]
          /\ ret' = sort_predictions_key(p)

FanOut ==
    /\ op = "idle"
    /\ \E n \in 0..MaxAnswers, context \in FanOutContexts :
          /\ op' = "prediction_documents_iter_from_context"
          /\ arg' = [iter_len |-> n, context |-> context]
          /\ ret' = prediction_documents_iter_from_context(n, context)

FromSequenceClassification ==
    /\ op = "idle"
    /\ \E answers \in SeqsUpTo(AnswerTexts, MaxAnswers),
          model_api_output \in LogitsPayloads,
          context \in FanOutContexts :
          /\ op' = "from_sequence_classification"
          /\ arg' = [answers |-> answers, model_api_output |-> model_api_output,
                     context |-> context]
          /\ ret' = from_sequence_classification(answers, model_api_output, context)

FromQuestionAnswering ==
    /\ op = "idle"
    /\ \E model_api_output \in AnswersPayloads :
          LET n == IF "answers" \in DOMAIN model_api_output
                   THEN Len(model_api_output.answers) ELSE 0
          IN  \E context \in QAContexts(n), context_score \in QAContextScores(n) :
                /\ op' = "from_question_answering"
                /\ arg' = [model_api_output |-> model_api_output,
                           context |-> context, context_score |-> context_score]
                /\ ret' = from_question_answering(model_api_output, context,
                                                  context_score)

Constructors ==
    {"QueryOutput", "from_sequence_classification", "from_question_answering"}

\* a QueryOutput that was built is serialized and built again from the record
RoundTrip ==
    /\ op \in Constructors
    /\ ret.status = "ok"
    /\ op' = "roundtrip"
    /\ arg' = [q |-> ret.value]
    /\ ret' = Ok(QueryOutput(ToDict(ret.value).predictions))

Return ==
    /\ op # "idle"
    /\ op' = "idle"
    /\ arg' = None
    /\ ret' = None

Next ==
    \/ Construct
    \/ SortKey
    \/ FanOut
    \/ FromSequenceClassification
    \/ FromQuestionAnswering
    \/ RoundTrip
    \/ Return

Spec == Init /\ [][Next]_vars

-----------------------------------------------------------------------------
(* Vocabulary of the properties *)

\* the ranking key as the specification words it
RankKey(p) ==
    <<IF Len(p.prediction_documents) = 0 THEN 1
      ELSE p.prediction_documents[1].document_score,
      p.prediction_score>>

KeyGeq(a, b) == a[1] > b[1] \/ (a[1] = b[1] /\ a[2] >= b[2])

\* how many times each value occurs in s
BagOf(s) == [x \in Range(s) |-> Cardinality({i \in DOMAIN s : s[i] = x})]

Returned == ret.status = "ok"

\* a PredictionDocument that only wraps a text
PlainDocument(text) ==
    [cls |-> "PredictionDocument", index |-> "", document_id |-> "",
     document |-> text, span |-> None, url |-> "", source |-> "",
     document_score |-> 0]

\* the document lists the fan-out is to produce for n answers
ExpectedFanOut(n, context) ==
    [i \in 1..n |->
        IF context.cls = "NoneType" THEN <<>>
        ELSE IF context.cls = "str" THEN <<PlainDocument(context.val)>>
        ELSE <<PlainDocument(context.val[i])>>]

WellShaped(n, context) ==
    \/ context.cls \in {"NoneType", "str"}
    \/ context.cls = "list" /\ Len(context.val) = n

\* the candidate answer records of all passages, each with its passage index
RECURSIVE FlatRecords(_, _)
FlatRecords(passages, i) ==
    IF i > Len(passages) THEN <<>>
    ELSE [j \in 1..Len(passages[i]) |-> [passage |-> i, record |-> passages[i][j]]]
         \o FlatRecords(passages, i + 1)

QACall == op = "from_question_answering"
QAPassages == arg.model_api_output.answers
QARecords == FlatRecords(QAPassages, 1)

\* the context text of passage i as the arguments give it
ContextText(i) ==
    IF arg.context.cls = "NoneType" THEN ""
    ELSE IF arg.context.cls = "str" THEN arg.context.val
    ELSE arg.context.val[i]

\* the context score of passage i as the arguments give it (a number)
ContextScore(i) ==
    IF arg.context.cls = "NoneType" THEN 1
    ELSE IF arg.context.cls = "str" THEN arg.context_score.val
    ELSE arg.context_score.val[i]

ExpectedOutputText(r) == IF r.answer = "" THEN "No answer found." ELSE r.answer

-----------------------------------------------------------------------------
(* C1 *)

-----------------------------------------------------------------------------
(* C2 *)

\* C2: in from_question_answering, every candidate answer of a passage whose
\* resolved context document is non-empty gets exactly the document
\* (document = the context text, span = [start, end], document_score = the
\* resolved context score), given numeric context scores.
C2_DocumentCarriesContextScore ==
    (/\ QACall /\ Returned
     /\ arg.context.cls = "str" => arg.context_score.cls = "float") =>
        BagOf([i \in 1..Len(ret.value.predictions) |->
                 LET p == ret.value.predictions[i]
                 IN  [score |-> p.prediction_score,
                      output |-> p.prediction_output.output,
                      documents |->
                         [k \in 1..Len(p.prediction_documents) |->
                             LET d == p.prediction_documents[k]
                             IN  <<d.document, d.span, d.document_score>>]]])
        = BagOf([i \in 1..Len(QARecords) |->
                 LET r == QARecords[i].record
                     c == ContextText(QARecords[i].passage)
                 IN  [score |-> r.score,
                      output |-> ExpectedOutputText(r),
                      documents |->
                         IF c = "" THEN <<>>
                         ELSE <<<<c, List(<<r.start, r.end>>),
                                  ContextScore(QARecords[i].passage)>>>>]])

-----------------------------------------------------------------------------
(* C3 *)

\* C3: from_question_answering produces no QueryOutput when the payload has
\* at least one passage and context and context_score disagree in shape:
\* context a sequence and context_score not, or context a single text and
\* context_score a sequence.
C3_ShapeMismatchFails ==
    (/\ QACall
     /\ "answers" \in DOMAIN arg.model_api_output
     /\ Len(QAPassages) >= 1
     /\ \/ arg.context.cls = "list" /\ arg.context_score.cls # "list"
        \/ arg.context.cls = "str" /\ arg.context_score.cls = "list")
    => ~ Returned

-----------------------------------------------------------------------------
(* C4 *)

\* C4: for every N >= 0 the fan-out helper yields exactly N document lists,
\* aligned with the answers: N empty lists for an absent context, N singleton
\* lists wrapping the shared text (no span, default document_score) for a
\* text, N singleton lists wrapping context[i] for a sequence of N texts.
C4_FanOutAligned ==
    (/\ op = "prediction_documents_iter_from_context"
     /\ WellShaped(arg.iter_len, arg.context)) =>
        /\ Returned
        /\ Len(ret.value) = arg.iter_len
        /\ ret.value = ExpectedFanOut(arg.iter_len, arg.context)

\* the fan-out of a shared text over several answers
C4_Witness ==
    /\ op = "prediction_documents_iter_from_context" /\ Returned
    /\ arg.context = Str("doc")
    /\ arg.iter_len = MaxAnswers
    /\ Len(ret.value) >= 2

-----------------------------------------------------------------------------
(* C5 *)

FanOutLen ==
    IF op = "from_sequence_classification" THEN Len(arg.answers) ELSE arg.iter_len

\* C5: the fan-out helper raises a length-mismatch error for a sequence whose
\* length differs from N (shorter or longer) and a type error for a context
\* that is neither absent, a text nor a sequence; from_sequence_classification
\* then returns nothing, whatever the logits payload.
C5_FanOutErrors ==
    (op \in {"prediction_documents_iter_from_context",
             "from_sequence_classification"}) =>
        /\ (arg.context.cls = "list" /\ Len(arg.context.val) # FanOutLen)
              => ret = [status |-> "ValueError"]
        /\ arg.context.cls \notin {"NoneType", "str", "list"}
              => ret = [status |-> "TypeError"]

\* from_sequence_classification with a context list longer than the answers
\* and a payload without model_outputs
C5_Witness ==
    /\ op = "from_sequence_classification"
    /\ arg.context.cls = "list"
    /\ Len(arg.context.val) > Len(arg.answers)
    /\ Len(arg.answers) >= 1
    /\ "model_outputs" \notin DOMAIN arg.model_api_output
    /\ ret.status = "ValueError"

-----------------------------------------------------------------------------
(* C6 *)

SCScores == arg.model_api_output.model_outputs.logits[1]

\* C6: from_sequence_classification returns a QueryOutput of exactly
\* min(len(scores), len(answers)) predictions, one per position i below that
\* minimum, with output answers[i], prediction_score = output_score =
\* scores[i] and the i-th fan-out list as documents; with the context absent
\* the result is ordered by prediction_score descending.
C6_SequenceClassification ==
    (/\ op = "from_sequence_classification"
     /\ "model_outputs" \in DOMAIN arg.model_api_output
     /\ WellShaped(Len(arg.answers), arg.context)) =>
        LET n == IF Len(SCScores) <= Len(arg.answers)
                 THEN Len(SCScores) ELSE Len(arg.answers)
            docs == ExpectedFanOut(Len(arg.answers), arg.context)
            expected ==
               [i \in 1..n |->
                   [cls |-> "Prediction",
                    prediction_score |-> SCScores[i],
                    prediction_output |->
                       [cls |-> "PredictionOutput", output |-> arg.answers[i],
                        output_score |-> SCScores[i]],
                    prediction_documents |-> docs[i]]]
        IN  /\ Returned
            /\ Len(ret.value.predictions) = n
            /\ BagOf(ret.value.predictions) = BagOf(expected)
            /\ arg.context.cls = "NoneType" =>
                  \A i \in 1..(n - 1) :
                     ret.value.predictions[i].prediction_score
                        >= ret.value.predictions[i + 1].prediction_score

\* more scores than answers, given in ascending order, context a list
C6_Witness ==
    /\ op = "from_sequence_classification" /\ Returned
    /\ arg.context.cls = "list"
    /\ Len(arg.answers) = 2
    /\ Len(SCScores) = 3
    /\ SCScores[1] < SCScores[2]
    /\ ret.value.predictions[1].prediction_output.output = arg.answers[2]

-----------------------------------------------------------------------------
(* C7 *)

\* C7: from_question_answering flattens all passages: one Prediction per
\* candidate answer record over all passages, with prediction_score =
\* output_score = the record's score and output = the record's answer text,
\* or the placeholder "No answer found." when that text is empty; no output
\* is empty.
C7_Flattened ==
    (QACall /\ Returned) =>
        LET ps == ret.value.predictions
        IN  /\ Len(ps) = Len(QARecords)
            /\ BagOf([i \in 1..Len(ps) |->
                        [prediction_score |-> ps[i].prediction_score,
                         output_score |-> ps[i].prediction_output.output_score,
                         output |-> ps[i].prediction_output.output]])
               = BagOf([i \in 1..Len(QARecords) |->
                        [prediction_score |-> QARecords[i].record.score,
                         output_score |-> QARecords[i].record.score,
                         output |-> ExpectedOutputText(QARecords[i].record)]])
            /\ \A i \in 1..Len(ps) : ps[i].prediction_output.output # ""

\* two passages with one record each, one of them with an empty answer
C7_Witness ==
    /\ QACall /\ Returned
    /\ Len(QAPassages) = 2
    /\ Len(QAPassages[1]) = 1 /\ Len(QAPassages[2]) = 1
    /\ QAPassages[1][1].answer = "" /\ QAPassages[2][1].answer # ""
    /\ Len(ret.value.predictions) = 2

-----------------------------------------------------------------------------
(* C8 *)

\* C8: every Prediction returned by from_question_answering has at most one
\* document: one when the resolved context text of its passage is non-empty,
\* none when the context is absent or that text is empty, whatever
\* context_score is.
C8_AtMostOneDocument ==
    (QACall /\ Returned) =>
        LET ps == ret.value.predictions
        IN  /\ \A i \in 1..Len(ps) : Len(ps[i].prediction_documents) <= 1
            /\ BagOf([i \in 1..Len(ps) |->
                        [score |-> ps[i].prediction_score,
                         output |-> ps[i].prediction_output.output,
                         ndocs |-> Len(ps[i].prediction_documents)]])
               = BagOf([i \in 1..Len(QARecords) |->
                        [score |-> QARecords[i].record.score,
                         output |-> ExpectedOutputText(QARecords[i].record),
                         ndocs |-> IF ContextText(QARecords[i].passage) = ""
                                   THEN 0 ELSE 1]])

\* a context list with an empty and a non-empty entry, a record in each passage
C8_Witness ==
    /\ QACall /\ Returned
    /\ arg.context.cls = "list"
    /\ Len(QAPassages) = 2
    /\ Len(QAPassages[1]) = 1 /\ Len(QAPassages[2]) = 1
    /\ arg.context.val[1] = "" /\ arg.context.val[2] # ""
    /\ \E i \in 1..2 : Len(ret.value.predictions[i].prediction_documents) = 1
    /\ \E i \in 1..2 : Len(ret.value.predictions[i].prediction_documents) = 0

-----------------------------------------------------------------------------
(* C9 *)

\* C9: serializing a QueryOutput to its record form and building a
\* QueryOutput from that record gives predictions with the same field values
\* in the same order, also when predictions tie on both key components; the
\* sort leaves a sorted list as it is.
C9_RoundTrip ==
    op = "roundtrip" =>
        /\ Returned
        /\ ret.value.predictions = arg.q.predictions
        /\ ret.value = arg.q

\* a round trip of a QueryOutput holding two different predictions of equal key
C9_Witness ==
    /\ op = "roundtrip" /\ Returned
    /\ \E i, j \in 1..Len(arg.q.predictions) :
          /\ i < j
          /\ RankKey(arg.q.predictions[i]) = RankKey(arg.q.predictions[j])
          /\ arg.q.predictions[i] # arg.q.predictions[j]

-----------------------------------------------------------------------------
(* C10 *)

\* C10: sort_predictions_key gives a Prediction and its equivalent mapping
\* the same key, (document_score of the first document or 1, prediction_score),
\* and raises a type error, returning no key, for an input that is neither a
\* Prediction nor a mapping.
C10_KeyAgrees ==
    op = "sort_predictions_key" =>
        /\ \A q \in PredictionPool :
              arg.p \in {q, ToDict(q)} => ret = [status |-> "ok", value |-> RankKey(q)]
        /\ arg.p.cls \notin {"Prediction", "dict"} => ret = [status |-> "TypeError"]

\* the key of a mapping whose first document's score is not the default
C10_Witness ==
    /\ op = "sort_predictions_key" /\ Returned
    /\ arg.p.cls = "dict"
    /\ Len(arg.p.prediction_documents) = 2
    /\ "document_score" \in DOMAIN arg.p.prediction_documents[1]
    /\ arg.p.prediction_documents[1].document_score = 0
    /\ ret.value[1] = 0

====
